---------------------------- MODULE Spec2Model ----------------------------
(***************************************************************************)
(* A model of the bingeworthy.ai backend: the expiring key/value cache of  *)
(* backend/database.py (table `cache`, get_cache, set_cache) with the      *)
(* cache invalidation statements of backend/app.py, and the handlers of    *)
(* backend/app.py that use it: /search with the provider lookup and the    *)
(* ratings aggregation, /recommendations, /suggest, and the application    *)
(* settings.                                                               *)
(*                                                                         *)
(* Time is counted in ticks of 12 hours.  Python values are tagged tuples, *)
(* a JSON text is a sequence of tokens.                                    *)
(***************************************************************************)
EXTENDS Integers, Sequences, FiniteSets, TLC

(***************************************************************************)
(* Bounds of the model.                                                    *)
(***************************************************************************)
\* the clock runs from 0 to MaxTime
MaxTime == 2
\* sorted is called with lists of up to MaxResults records
MaxResults == 4
\* get_cache is called with an expiry in 1..MaxExpiry (a positive timedelta)
MaxExpiry == 2

(***************************************************************************)
(* Python values: None, bool, str, int, float, list, dict with string keys *)
(* and an object json.dumps has no encoding for.                           *)
(***************************************************************************)
PyNone == <<"none">>
PyTrue == <<"true">>
PyFalse == <<"false">>
PyStr(s) == <<"str", s>>
PyInt(n) == <<"int", n>>
\* a float, counted in tenths: PyFloat(78) is 7.8
PyFloat(n) == <<"float", n>>
PyList(items) == <<"list", items>>
PyDict(pairs) == <<"dict", pairs>>
PyObject == <<"object">>

\* Python truthiness, as `if cached:` and `if row['value']` use it
Truthy(v) ==
    CASE v[1] = "none" -> FALSE
      [] v[1] = "true" -> TRUE
      [] v[1] = "false" -> FALSE
      [] v[1] = "str" -> v[2] # ""
      [] v[1] = "int" -> v[2] # 0
      [] v[1] = "float" -> v[2] # 0
      [] v[1] = "list" -> v[2] # <<>>
      [] v[1] = "dict" -> v[2] # <<>>
      [] OTHER -> TRUE

(***************************************************************************)
(* json.dumps and json.loads, on token sequences.                          *)
(***************************************************************************)
Punct(c) == <<"p", c>>
Lit(w) == <<"lit", w>>
StrTok(s) == <<"s", s>>
NumTok(n) == <<"n", n>>
FloatTok(n) == <<"f", n>>

RECURSIVE Serializable(_)
Serializable(v) ==
    CASE v[1] = "list" -> \A i \in 1..Len(v[2]) : Serializable(v[2][i])
      [] v[1] = "dict" -> \A i \in 1..Len(v[2]) : Serializable(v[2][i][2])
      [] v[1] = "object" -> FALSE
      [] OTHER -> TRUE

RECURSIVE json_dumps(_)
RECURSIVE DumpItems(_)
RECURSIVE DumpPairs(_)
DumpItems(items) ==
    IF items = <<>> THEN <<>>
    ELSE IF Len(items) = 1 THEN json_dumps(items[1])
    ELSE json_dumps(items[1]) \o <<Punct(",")>> \o DumpItems(Tail(items))

DumpPairs(pairs) ==
    IF pairs = <<>> THEN <<>>
    ELSE LET one == <<StrTok(pairs[1][1]), Punct(":")>> \o json_dumps(pairs[1][2])
         IN  IF Len(pairs) = 1 THEN one
             ELSE one \o <<Punct(",")>> \o DumpPairs(Tail(pairs))

\* str(value) in the place of json.dumps(value): Python's repr of None
py_repr(v) ==
    CASE v[1] = "none" -> <<Lit("None")>>
      [] v[1] = "true" -> <<Lit("True")>>
      [] v[1] = "false" -> <<Lit("False")>>
      [] v[1] = "str" -> <<StrTok(v[2])>>
      [] v[1] = "int" -> <<NumTok(v[2])>>
      [] v[1] = "float" -> <<FloatTok(v[2])>>
      [] v[1] = "list" -> <<Punct("[")>> \o DumpItems(v[2]) \o <<Punct("]")>>
      [] v[1] = "dict" -> <<Punct("{")>> \o DumpPairs(v[2]) \o <<Punct("}")>>

\* json.dumps(value), for a Serializable value (it raises TypeError otherwise)
json_dumps(v) ==
    CASE v[1] = "none" -> <<Lit("null")>>
      [] v[1] = "true" -> <<Lit("true")>>
      [] v[1] = "false" -> <<Lit("false")>>
      [] v[1] = "str" -> <<StrTok(v[2])>>
      [] v[1] = "int" -> <<NumTok(v[2])>>
      [] v[1] = "float" -> <<FloatTok(v[2])>>
      [] v[1] = "list" -> <<Punct("[")>> \o DumpItems(v[2]) \o <<Punct("]")>>
      [] v[1] = "dict" -> <<Punct("{")>> \o DumpPairs(v[2]) \o <<Punct("}")>>

ParseFail == [ok |-> FALSE, val |-> PyNone, rest |-> <<>>]
Parsed(v, r) == [ok |-> TRUE, val |-> v, rest |-> r]
IsPunct(t, c) == t[1] = "p" /\ t[2] = c

RECURSIVE ParseValue(_)
RECURSIVE ParseElems(_, _)
RECURSIVE ParseMembers(_, _)
\* the elements of an array after "[", up to and including "]"
ParseElems(toks, acc) ==
    LET e == ParseValue(toks)
    IN  IF ~e.ok \/ e.rest = <<>> THEN ParseFail
        ELSE IF IsPunct(Head(e.rest), "]")
             THEN Parsed(PyList(Append(acc, e.val)), Tail(e.rest))
        ELSE IF IsPunct(Head(e.rest), ",")
             THEN ParseElems(Tail(e.rest), Append(acc, e.val))
        ELSE ParseFail

\* the members of an object after "{", up to and including "}"
ParseMembers(toks, acc) ==
    IF Len(toks) < 2 \/ Head(toks)[1] # "s" \/ ~IsPunct(toks[2], ":") THEN ParseFail
    ELSE LET e == ParseValue(Tail(Tail(toks)))
             done == Append(acc, <<Head(toks)[2], e.val>>)
         IN  IF ~e.ok \/ e.rest = <<>> THEN ParseFail
             ELSE IF IsPunct(Head(e.rest), "}")
                  THEN Parsed(PyDict(done), Tail(e.rest))
             ELSE IF IsPunct(Head(e.rest), ",")
                  THEN ParseMembers(Tail(e.rest), done)
             ELSE ParseFail

ParseValue(toks) ==
    IF toks = <<>> THEN ParseFail
    ELSE LET h == Head(toks)
             r == Tail(toks)
         IN  CASE h[1] = "lit" /\ h[2] = "null" -> Parsed(PyNone, r)
               [] h[1] = "lit" /\ h[2] = "true" -> Parsed(PyTrue, r)
               [] h[1] = "lit" /\ h[2] = "false" -> Parsed(PyFalse, r)
               [] h[1] = "s" -> Parsed(PyStr(h[2]), r)
               [] h[1] = "n" -> Parsed(PyInt(h[2]), r)
               [] h[1] = "f" -> Parsed(PyFloat(h[2]), r)
               [] IsPunct(h, "[") ->
                    IF r # <<>> /\ IsPunct(Head(r), "]")
                    THEN Parsed(PyList(<<>>), Tail(r))
                    ELSE ParseElems(r, <<>>)
               [] IsPunct(h, "{") ->
                    IF r # <<>> /\ IsPunct(Head(r), "}")
                    THEN Parsed(PyDict(<<>>), Tail(r))
                    ELSE ParseMembers(r, <<>>)
               [] OTHER -> ParseFail

\* json.loads(text): ok is FALSE where json.loads raises JSONDecodeError
json_loads(text) ==
    LET p == ParseValue(text)
    IN  IF p.ok /\ p.rest = <<>> THEN [ok |-> TRUE, val |-> p.val]
        ELSE [ok |-> FALSE, val |-> PyNone]


(***************************************************************************)
(* The cache table and the clients of the store.                           *)
(***************************************************************************)
VARIABLES
    cache,      \* the rows of table `cache`: [key, value, timestamp]
    now,        \* datetime.utcnow(), in ticks
    pc,         \* per request task: "idle", or "insert" between the two statements of set_cache
    arg,        \* per request task: the key and value of its set_cache call
    last,       \* the last completed get_cache or set_cache call and what it returned or raised
    written,    \* history, per key: the value of the last set_cache call and whether a later statement removed it
    apiKeys,    \* which of TMDB_API_KEY and OMDB_API_KEY are set
    s,          \* the task of a /search request: its position and its local variables
    calls,      \* history of the /search request: the remote calls and cache writes it made, per item
    rec,        \* the task of a /recommendations request, with the remote calls and cache writes it made
    settings,   \* the rows of table `settings`: [id, value]
    gs,         \* per request task: its get_app_settings call
    us,         \* the task of a PUT /admin/settings request, and the update that completed last
    call,       \* a call of a function without side effects: its arguments and what it returned
    sg,         \* the task of a /suggest request, with the remote calls it made and the requests that completed
    hfToken     \* whether HF_API_TOKEN is set

clientVars == <<pc, arg, last, written>>
searchVars == <<apiKeys, s, calls>>
settingsVars == <<settings, gs, us>>
suggestVars == <<sg, hfToken>>
otherVars == <<rec, settings, gs, us, call, sg, hfToken>>
vars == <<cache, now, pc, arg, last, written, apiKeys, s, calls, rec, settings, gs, us, call,
          sg, hfToken>>

\* two concurrent request tasks
Tasks == {"t1", "t2"}
Keys == {"k1", "k2"}
Expiries == 1..MaxExpiry

\* what the callers pass to set_cache
EmptyList == PyList(<<>>)
ProvidersValue == PyDict(<< <<"providers", PyList(<<PyStr("Netflix")>>)>>, <<"link", PyNone>> >>)
Values == {EmptyList, ProvidersValue, PyObject}

\* payloads no set_cache call writes: an empty string and a truncated JSON text
CorruptPayloads == {<<>>, <<Punct("{"), StrTok("providers")>>}

Row(k, text, t) == [key |-> k, value |-> text, timestamp |-> t]
RowsOf(tbl, k) == {r \in tbl : r.key = k}

\* a delete whose where clause matches no row
DeleteNothing(tbl, k) == tbl

\* a delete with no where clause
DeleteAll(tbl, k) == {}

\* cache.delete().where(cache.c.key == key)
DeleteWhere(tbl, k) == tbl \ RowsOf(tbl, k)

\* the insert into a table without the primary key
InsertNoKey(tbl, row) == [ok |-> TRUE, tbl |-> tbl \cup {row}]

\* cache.insert().values(...): column `key` is the primary key, so the insert
\* of a second row for a key is rejected (IntegrityError)
Insert(tbl, row) ==
    IF RowsOf(tbl, row.key) # {} THEN [ok |-> FALSE, tbl |-> tbl]
    ELSE [ok |-> TRUE, tbl |-> tbl \cup {row}]

\* a freshness test that takes an entry as old as the expiry for fresh
FreshInclusive(row, expiry, t) == t - row.timestamp <= expiry

\* the freshness test of get_cache
Fresh(row, expiry, t) == t - row.timestamp < expiry

Return(v) == [ret |-> v, exc |-> "none"]

\* json.loads outside any try
Uncaught(e) == [ret |-> PyNone, exc |-> e]

\* except Exception: return None
Caught(e) == Return(PyNone)

\* get_cache(db, key, expiry) at time t: what it returns (PyNone for None)
\* and the exception it raises
get_cache_call(tbl, k, expiry, t) ==
    LET rows == RowsOf(tbl, k)
    IN  IF rows = {} THEN Return(PyNone)
        ELSE LET row == CHOOSE r \in rows : TRUE
             IN  IF Fresh(row, expiry, t)
                 THEN IF row.value = <<>> THEN Return(PyNone)
                      ELSE IF json_loads(row.value).ok
                           THEN Return(json_loads(row.value).val)
                           ELSE Caught("JSONDecodeError")
                 ELSE Return(PyNone)

get_cache(tbl, k, expiry, t) == get_cache_call(tbl, k, expiry, t).ret

\* a get_cache that deletes the rows it finds stale
PurgeStale(tbl, k, expiry, t) == tbl \ {r \in RowsOf(tbl, k) : ~Fresh(r, expiry, t)}

\* the table after get_cache: its only statement, fetch_one, is a select
TableAfterGet(tbl, k, expiry, t) == tbl

NoArg == [key |-> "", value |-> PyNone]
NoCall == [op |-> "none", key |-> "", expiry |-> 0, ret |-> PyNone, exc |-> "none", over |-> FALSE]
NoWrite == [st |-> "none", value |-> PyNone, at |-> 0]

\* the tasks between the delete and the insert of a set_cache on key k
InFlight(k) == {t \in Tasks : pc[t] = "insert" /\ arg[t].key = k}

\* a set_cache call of task t on key k that replaces the value of an earlier
\* set_cache call, with no other statement on k since its delete
Replaces(t, k) == InFlight(k) = {t} /\ written[k].st = "replacing"

Removed(w) == IF w.st = "live" THEN [w EXCEPT !.st = "replacing"] ELSE w

\* the values of a row of table `settings`, and of the payload of an update
SettingsValue(search_fields, card_fields) ==
    [search_fields |-> search_fields, card_fields |-> card_fields]

\* `default` of get_app_settings
DefaultSettings ==
    SettingsValue(PyDict(<< <<"platforms", PyTrue>>, <<"genres", PyTrue>>, <<"actors", PyTrue>>,
                            <<"language", PyTrue>>, <<"country", PyTrue>> >>),
                  PyDict(<< <<"title", PyTrue>>, <<"rating", PyTrue>>, <<"summary", PyTrue>>,
                            <<"platform", PyTrue>>, <<"actors", PyFalse>>, <<"year", PyTrue>> >>))

\* the handlers at rest
NoRec == [pc |-> "idle", outcome |-> "none", results |-> PyList(<<>>), remote |-> 0, writes |-> 0]
NoRow == [found |-> FALSE, id |-> 0, value |-> DefaultSettings]
NoUpdateSeen == [known |-> FALSE, payload |-> DefaultSettings]
NoRead == [pc |-> "idle", parsed |-> PyNone, outcome |-> "none", since |-> FALSE]
NoUpdate == [pc |-> "idle", row |-> NoRow, payload |-> DefaultSettings, done |-> NoUpdateSeen]
NoFn == [fn |-> "none", args |-> <<>>, ret |-> PyNone]
NoSuggest == [pc |-> "idle", query |-> <<>>, suggestions |-> PyList(<<>>), source |-> "none",
              remote |-> 0, prior |-> FALSE, completed |-> {}]

OtherIdle ==
    /\ rec = NoRec
    /\ settings = {}
    /\ gs = [t \in Tasks |-> NoRead]
    /\ us = NoUpdate
    /\ call = NoFn
    /\ sg = NoSuggest
    /\ hfToken = FALSE

StoreInit ==
    /\ cache \in {rows \in SUBSET {Row(k, c, 0) : k \in Keys, c \in CorruptPayloads} :
                    \A k \in Keys : Cardinality(RowsOf(rows, k)) <= 1}
    /\ now = 0
    /\ pc = [t \in Tasks |-> "idle"]
    /\ arg = [t \in Tasks |-> NoArg]
    /\ last = NoCall
    /\ written = [k \in Keys |-> NoWrite]

\* get_cache: its one statement, fetch_one, and the test of the row it returned
GetCache(t, k, e) ==
    /\ pc[t] = "idle"
    /\ LET r == get_cache_call(cache, k, e, now)
       IN  last' = [op |-> "get", key |-> k, expiry |-> e,
                    ret |-> r.ret, exc |-> r.exc, over |-> FALSE]
    /\ cache' = TableAfterGet(cache, k, e, now)
    /\ UNCHANGED <<now, pc, arg, written, searchVars, otherVars>>

\* set_cache, first statement: the delete
SetCacheDelete(t, k, v) ==
    /\ pc[t] = "idle"
    /\ cache' = DeleteWhere(cache, k)
    /\ pc' = [pc EXCEPT ![t] = "insert"]
    /\ arg' = [arg EXCEPT ![t] = [key |-> k, value |-> v]]
    /\ written' = [written EXCEPT ![k] = Removed(@)]
    /\ UNCHANGED <<now, last, searchVars, otherVars>>

\* what the second statement does to the table: json.dumps raises TypeError
\* before the insert is executed, the insert raises IntegrityError
set_cache_insert(tbl, k, v, t) ==
    IF ~Serializable(v) THEN [exc |-> "TypeError", tbl |-> tbl]
    ELSE LET r == Insert(tbl, Row(k, json_dumps(v), t))
         IN  [exc |-> IF r.ok THEN "none" ELSE "IntegrityError", tbl |-> r.tbl]

\* the table after a whole set_cache(db, key, value) call at time t, with no
\* other statement between its delete and its insert
set_cache(tbl, k, v, t) == set_cache_insert(DeleteWhere(tbl, k), k, v, t).tbl

\* set_cache, second statement: the insert; the call returns or raises
SetCacheInsert(t) ==
    /\ pc[t] = "insert"
    /\ LET k == arg[t].key
           v == arg[t].value
           r == set_cache_insert(cache, k, v, now)
           w == written[k]
       IN  /\ cache' = r.tbl
           /\ last' = [op |-> "set", key |-> k, expiry |-> 0, ret |-> v, exc |-> r.exc,
                       over |-> Replaces(t, k)]
           /\ written' = [written EXCEPT ![k] =
                  IF r.exc = "none" THEN [st |-> "live", value |-> v, at |-> now]
                  ELSE IF w.st = "replacing" THEN NoWrite ELSE w]
           /\ pc' = [pc EXCEPT ![t] = "idle"]
           /\ arg' = [arg EXCEPT ![t] = NoArg]
    /\ UNCHANGED <<now, searchVars, otherVars>>

\* admin_update_settings: cache.delete().where(cache.c.key == "app_settings")
DeleteKey(k) ==
    /\ RowsOf(cache, k) # {}
    /\ cache' = DeleteWhere(cache, k)
    /\ written' = [written EXCEPT ![k] = NoWrite]
    /\ UNCHANGED <<now, pc, arg, last, searchVars, otherVars>>

\* admin_clear_cache: cache.delete()
ClearCache ==
    /\ cache # {}
    /\ cache' = {}
    /\ written' = [k \in Keys |-> NoWrite]
    /\ UNCHANGED <<now, pc, arg, last, searchVars, otherVars>>

\* time passes
Tick ==
    /\ now < MaxTime
    /\ now' = now + 1
    /\ UNCHANGED <<cache, pc, arg, last, written, searchVars, otherVars>>

(***************************************************************************)
(* Ratings aggregation.  Floats are counted in tenths.                     *)
(***************************************************************************)
\* value.split("/")[0], of the strings that occur in the model
BeforeSlash(str) ==
    CASE str = "7.0/10" -> "7.0"
      [] str = "8.5/10" -> "8.5"
      [] str = "10/10" -> "10"
      [] str = "12.0/10" -> "12.0"
      [] str = "/10" -> ""
      [] OTHER -> str

\* value.replace("%", "").strip(), of the strings that occur in the model
WithoutPercent(str) ==
    CASE str = "90%" -> "90"
      [] str = " 85% " -> "85"
      [] str = "100%" -> "100"
      [] str = "0%" -> "0"
      [] str = "150%" -> "150"
      [] str = "%" -> ""
      [] OTHER -> str

\* float(str), in tenths: ok is FALSE where float raises ValueError
ParseFloat(str) ==
    CASE str = "0" -> [ok |-> TRUE, val |-> 0]
      [] str = "7.0" -> [ok |-> TRUE, val |-> 70]
      [] str = "8.5" -> [ok |-> TRUE, val |-> 85]
      [] str = "10" -> [ok |-> TRUE, val |-> 100]
      [] str = "12.0" -> [ok |-> TRUE, val |-> 120]
      [] str = "85" -> [ok |-> TRUE, val |-> 850]
      [] str = "90" -> [ok |-> TRUE, val |-> 900]
      [] str = "100" -> [ok |-> TRUE, val |-> 1000]
      [] str = "150" -> [ok |-> TRUE, val |-> 1500]
      [] OTHER -> [ok |-> FALSE, val |-> 0]

\* float(value) of a Python value: ok is FALSE where float raises
ToFloat(value) ==
    CASE value[1] = "float" -> [ok |-> TRUE, val |-> value[2]]
      [] value[1] = "int" -> [ok |-> TRUE, val |-> value[2] * 10]
      [] value[1] = "true" -> [ok |-> TRUE, val |-> 10]
      [] value[1] = "false" -> [ok |-> TRUE, val |-> 0]
      [] value[1] = "str" -> ParseFloat(value[2])
      [] OTHER -> [ok |-> FALSE, val |-> 0]

\* the part before "/" returned as it is, not scaled to 0-100
normalize_imdb_unscaled(value) ==
    IF ~Truthy(value) THEN PyNone
    ELSE IF value[1] # "str" THEN PyNone
    ELSE LET score == ParseFloat(BeforeSlash(value[2]))
         IN  IF score.ok THEN PyFloat(score.val) ELSE PyNone

normalize_imdb(value) ==
    IF ~Truthy(value) THEN PyNone
    ELSE IF value[1] # "str" THEN PyNone
    ELSE LET score == ParseFloat(BeforeSlash(value[2]))
         IN  IF score.ok THEN PyFloat(score.val * 10) ELSE PyNone

normalize_rt(value) ==
    IF ~Truthy(value) THEN PyNone
    ELSE IF value[1] # "str" THEN PyNone
    ELSE LET score == ParseFloat(WithoutPercent(value[2]))
         IN  IF score.ok THEN PyFloat(score.val) ELSE PyNone

normalize_tmdb(value) ==
    IF value = PyNone THEN PyNone
    ELSE IF ToFloat(value).ok THEN PyFloat(ToFloat(value).val * 10) ELSE PyNone

\* the weights 0.2, 0.5, 0.3, in tenths
WeightTmdb == 2
WeightImdb == 5
WeightRt == 3

\* num / den rounded to the nearest integer, a tie to the even one
RoundDiv(num, den) ==
    LET q == num \div den
        r == num % den
    IN  IF 2 * r < den THEN q
        ELSE IF 2 * r > den THEN q + 1
        ELSE IF q % 2 = 0 THEN q ELSE q + 1

\* vals: the sources that are present, in the order of the three tests
Breakdown(tmdb_n, imdb_n, rt_n) ==
    PyDict((IF tmdb_n # PyNone THEN << <<"tmdb", tmdb_n>> >> ELSE <<>>)
        \o (IF imdb_n # PyNone THEN << <<"imdb", imdb_n>> >> ELSE <<>>)
        \o (IF rt_n # PyNone THEN << <<"rt", rt_n>> >> ELSE <<>>))

\* a weighted sum divided by the sum of all three weights
aggregate_fixed_total(tmdb_score, imdb, rt) ==
    LET tmdb_n == normalize_tmdb(tmdb_score)
        imdb_n == normalize_imdb(imdb)
        rt_n == normalize_rt(rt)
        weighted_sum == (IF tmdb_n # PyNone THEN tmdb_n[2] * WeightTmdb ELSE 0)
                      + (IF imdb_n # PyNone THEN imdb_n[2] * WeightImdb ELSE 0)
                      + (IF rt_n # PyNone THEN rt_n[2] * WeightRt ELSE 0)
    IN  [aggregated |-> IF Breakdown(tmdb_n, imdb_n, rt_n) # PyDict(<<>>)
                        THEN PyFloat(RoundDiv(weighted_sum, WeightTmdb + WeightImdb + WeightRt))
                        ELSE PyNone,
         breakdown |-> Breakdown(tmdb_n, imdb_n, rt_n)]

\* a breakdown with a key for every source, None for an absent one
aggregate_all_keys(tmdb_score, imdb, rt) ==
    LET tmdb_n == normalize_tmdb(tmdb_score)
        imdb_n == normalize_imdb(imdb)
        rt_n == normalize_rt(rt)
        weighted_sum == (IF tmdb_n # PyNone THEN tmdb_n[2] * WeightTmdb ELSE 0)
                      + (IF imdb_n # PyNone THEN imdb_n[2] * WeightImdb ELSE 0)
                      + (IF rt_n # PyNone THEN rt_n[2] * WeightRt ELSE 0)
        total_weight == (IF tmdb_n # PyNone THEN WeightTmdb ELSE 0)
                      + (IF imdb_n # PyNone THEN WeightImdb ELSE 0)
                      + (IF rt_n # PyNone THEN WeightRt ELSE 0)
    IN  [aggregated |-> IF total_weight > 0
                        THEN PyFloat(RoundDiv(weighted_sum, total_weight)) ELSE PyNone,
         breakdown |-> PyDict(<< <<"tmdb", tmdb_n>>, <<"imdb", imdb_n>>, <<"rt", rt_n>> >>)]

\* aggregate_ratings(tmdb_score, imdb, rt): {"aggregated": ..., "breakdown": vals}
aggregate_ratings(tmdb_score, imdb, rt) ==
    LET tmdb_n == normalize_tmdb(tmdb_score)
        imdb_n == normalize_imdb(imdb)
        rt_n == normalize_rt(rt)
        weighted_sum == (IF tmdb_n # PyNone THEN tmdb_n[2] * WeightTmdb ELSE 0)
                      + (IF imdb_n # PyNone THEN imdb_n[2] * WeightImdb ELSE 0)
                      + (IF rt_n # PyNone THEN rt_n[2] * WeightRt ELSE 0)
        total_weight == (IF tmdb_n # PyNone THEN WeightTmdb ELSE 0)
                      + (IF imdb_n # PyNone THEN WeightImdb ELSE 0)
                      + (IF rt_n # PyNone THEN WeightRt ELSE 0)
    IN  [aggregated |-> IF total_weight > 0
                        THEN PyFloat(RoundDiv(weighted_sum, total_weight)) ELSE PyNone,
         breakdown |-> Breakdown(tmdb_n, imdb_n, rt_n)]

\* the raw ratings a call is made with: the 0-10 score of the catalog source,
\* the "X/10" string and the "NN%" string of the ratings source
TmdbScores == {PyNone, PyFloat(0), PyFloat(73), PyFloat(80), PyInt(7), PyStr("N/A")}
ImdbRatings == {PyNone, PyStr(""), PyStr("7.0/10"), PyStr("8.5/10"), PyStr("10/10"),
                PyStr("12.0/10"), PyStr("7.0"), PyStr("/10"), PyStr("N/A"), PyStr("90%")}
RtRatings == {PyNone, PyStr(""), PyStr("90%"), PyStr(" 85% "), PyStr("100%"), PyStr("0%"),
              PyStr("150%"), PyStr("%"), PyStr("N/A"), PyStr("7.0/10")}

\* a call of aggregate_ratings with the arguments drawn
CallAggregate ==
    /\ call.fn = "none"
    /\ call' = [call EXCEPT !.fn = "aggregate_ratings",
                            !.ret = aggregate_ratings(call.args[1], call.args[2], call.args[3])]
    /\ UNCHANGED <<cache, now, clientVars, searchVars, suggestVars, rec, settingsVars>>

\* calls of the three normalizers, each with its argument
CallNormalizeTmdb ==
    /\ call.fn = "none"
    /\ call' = [call EXCEPT !.fn = "normalize_tmdb", !.ret = normalize_tmdb(call.args[1])]
    /\ UNCHANGED <<cache, now, clientVars, searchVars, suggestVars, rec, settingsVars>>

CallNormalizeImdb ==
    /\ call.fn = "none"
    /\ call' = [call EXCEPT !.fn = "normalize_imdb", !.ret = normalize_imdb(call.args[2])]
    /\ UNCHANGED <<cache, now, clientVars, searchVars, suggestVars, rec, settingsVars>>

CallNormalizeRt ==
    /\ call.fn = "none"
    /\ call' = [call EXCEPT !.fn = "normalize_rt", !.ret = normalize_rt(call.args[3])]
    /\ UNCHANGED <<cache, now, clientVars, searchVars, suggestVars, rec, settingsVars>>

(***************************************************************************)
(* The /search handler, search_movies, with get_tmdb_providers.            *)
(***************************************************************************)
\* CACHE_EXPIRY_MOVIE = timedelta(hours=24), in ticks of 12 hours
CACHE_EXPIRY_MOVIE == 2

DEFAULT_PROVIDER_REGION == "US"

\* the items of the catalog source
ItemA == [id |-> 1, title |-> PyStr("Alpha"), name |-> PyNone,
          release_date |-> PyStr("1999-03-31"), first_air_date |-> PyNone,
          media_type |-> PyStr("movie"), vote_average |-> PyFloat(80),
          poster_path |-> PyStr("/a.jpg"), overview |-> PyStr("about Alpha")]
ItemB == [id |-> 2, title |-> PyNone, name |-> PyStr("Beta"),
          release_date |-> PyNone, first_air_date |-> PyStr("2005-09-13"),
          media_type |-> PyNone, vote_average |-> PyNone,
          poster_path |-> PyNone, overview |-> PyNone]

\* the result pages of the catalog search
Pages == {<<>>, <<ItemA>>, <<ItemA, ItemB>>, <<ItemB, ItemA>>}

\* the regions a request asks for (country or DEFAULT_PROVIDER_REGION)
Regions == {DEFAULT_PROVIDER_REGION, "GB"}

\* what a remote call ends with: status 200, another status, or no response
\* (a timeout, a connection error: httpx raises)
Outcomes == {"200", "503", "transport"}

\* the body of the secondary ratings source for a title it knows
OmdbBody == [Ratings |-> << [Source |-> "Internet Movie Database", Value |-> PyStr("7.0/10")],
                            [Source |-> "Rotten Tomatoes", Value |-> PyStr("90%")] >>,
             Plot |-> PyStr("N/A")]
\* {}, with the defaults of omdb_data.get
EmptyBody == [Ratings |-> <<>>, Plot |-> PyNone]

\* the watch/providers body: per region the provider names by category
NoRegionInfo == [flatrate |-> <<>>, rent |-> <<>>, buy |-> <<>>, ads |-> <<>>, link |-> PyNone]
ProviderResults(region) ==
    CASE region = "US" -> [flatrate |-> <<"Netflix", "Hulu">>, rent |-> <<"Apple TV", "Netflix">>,
                           buy |-> <<"Apple TV">>, ads |-> <<>>,
                           link |-> PyStr("https://www.themoviedb.org/watch?locale=US")]
      [] region = "GB" -> [flatrate |-> <<"BBC iPlayer">>, rent |-> <<>>,
                           buy |-> <<"Apple TV">>, ads |-> <<"BBC iPlayer">>,
                           link |-> PyStr("https://www.themoviedb.org/watch?locale=GB")]
      [] OTHER -> NoRegionInfo

\* a or b, of Python
Or(a, b) == IF Truthy(a) THEN a ELSE b

\* str[:4] of the dates that occur
Prefix4(str) ==
    CASE str = "1999-03-31" -> "1999"
      [] str = "2005-09-13" -> "2005"
      [] OTHER -> str

\* dict.get(key, default) on a dict value
RECURSIVE PairsGet(_, _, _)
PairsGet(pairs, key, default) ==
    IF pairs = <<>> THEN default
    ELSE IF pairs[1][1] = key THEN pairs[1][2]
    ELSE PairsGet(Tail(pairs), key, default)

DictGet(d, key, default) == PairsGet(d[2], key, default)

ItemTitle(item) == Or(item.title, item.name)
ItemYear(item) == PyStr(Prefix4(Or(Or(item.release_date, item.first_air_date), PyStr(""))[2]))
ItemMediaType(item) ==
    Or(item.media_type, IF Truthy(item.title) THEN PyStr("movie") ELSE PyStr("tv"))

\* cache_key = f"movie_detail_{media_type}_{tmdb_id}"
DetailKey(item) == "movie_detail_" \o ItemMediaType(item)[2] \o "_" \o ToString(item.id)

\* key = f"providers_{media_type}_{tmdb_id}_{region}"
ProvidersKey(item, region) ==
    "providers_" \o ItemMediaType(item)[2] \o "_" \o ToString(item.id) \o "_" \o region

\* next((r["Value"] for r in ratings if r.get("Source") == source), None)
RECURSIVE FirstRating(_, _)
FirstRating(ratings, source) ==
    IF ratings = <<>> THEN PyNone
    ELSE IF ratings[1].Source = source THEN ratings[1].Value
    ELSE FirstRating(Tail(ratings), source)

\* the names of a category appended to provider_names, each name once; ""
\* stands for an entry with no provider_name
RECURSIVE AppendNew(_, _)
AppendNew(names, more) ==
    IF more = <<>> THEN names
    ELSE AppendNew(IF Head(more) = "" \/ \E i \in 1..Len(names) : names[i] = PyStr(Head(more))
                   THEN names ELSE Append(names, PyStr(Head(more))),
                   Tail(more))

\* the categories scanned with rent before flatrate
ParseProvidersRentFirst(region_info) ==
    PyDict(<< <<"providers",
               PyList(AppendNew(AppendNew(AppendNew(AppendNew(<<>>, region_info.rent),
                                                    region_info.flatrate),
                                          region_info.buy),
                                region_info.ads))>>,
              <<"link", region_info.link>> >>)

\* parsed = {"providers": provider_names, "link": link}
ParseProviders(region_info) ==
    PyDict(<< <<"providers",
               PyList(AppendNew(AppendNew(AppendNew(AppendNew(<<>>, region_info.flatrate),
                                                    region_info.rent),
                                          region_info.buy),
                                region_info.ads))>>,
              <<"link", region_info.link>> >>)

\* {"providers": [], "link": None}
NoProviders == PyDict(<< <<"providers", PyList(<<>>)>>, <<"link", PyNone>> >>)

\* the composite record of an item
MovieDetail(item, omdb_data, providers) ==
    LET imdb_rating == FirstRating(omdb_data.Ratings, "Internet Movie Database")
        rt_rating == FirstRating(omdb_data.Ratings, "Rotten Tomatoes")
    IN  PyDict(<<
          <<"id", PyInt(item.id)>>,
          <<"title", ItemTitle(item)>>,
          <<"year", ItemYear(item)>>,
          <<"summary", IF omdb_data.Plot \notin {PyNone, PyStr("N/A")}
                       THEN omdb_data.Plot ELSE Or(item.overview, PyStr(""))>>,
          <<"poster", IF Truthy(item.poster_path)
                      THEN PyStr("https://image.tmdb.org/t/p/w500" \o item.poster_path[2])
                      ELSE PyNone>>,
          <<"imdb_rating", imdb_rating>>,
          <<"rotten_tomatoes_rating", rt_rating>>,
          <<"tmdb_vote_average", item.vote_average>>,
          <<"aggregated_rating", aggregate_ratings(item.vote_average, imdb_rating, rt_rating).aggregated>>,
          <<"platforms", DictGet(providers, "providers", PyList(<<>>))>>,
          <<"provider_link", DictGet(providers, "link", PyNone)>> >>)

\* key=lambda r: (r.get("aggregated_rating") or 0)
SortKey(r) == Or(DictGet(r, "aggregated_rating", PyNone), PyFloat(0))[2]

\* an insertion that puts a record before the records of equal key
RECURSIVE InsertDescTiesFirst(_, _)
InsertDescTiesFirst(sorted, r) ==
    IF sorted = <<>> THEN <<r>>
    ELSE IF SortKey(Head(sorted)) > SortKey(r)
         THEN <<Head(sorted)>> \o InsertDescTiesFirst(Tail(sorted), r)
    ELSE <<r>> \o sorted

\* sorted(results, key=..., reverse=True): stable, equal keys keep their order
RECURSIVE InsertDesc(_, _)
InsertDesc(sorted, r) ==
    IF sorted = <<>> THEN <<r>>
    ELSE IF SortKey(Head(sorted)) >= SortKey(r) THEN <<Head(sorted)>> \o InsertDesc(Tail(sorted), r)
    ELSE <<r>> \o sorted

RECURSIVE SortedDesc(_)
SortedDesc(results) ==
    IF results = <<>> THEN <<>>
    ELSE InsertDesc(SortedDesc(SubSeq(results, 1, Len(results) - 1)), results[Len(results)])

\* the request task before its first request
NoRequest == [pc |-> "idle", region |-> "", page |-> <<>>, i |-> 0, results |-> <<>>,
              omdb_data |-> EmptyBody, providers |-> NoProviders,
              outcome |-> "none", catalog |-> "none"]
NoCalls == [catalog |-> 0, omdb |-> <<>>, prov |-> <<>>, writes |-> <<>>, hit |-> <<>>,
            omdbFailed |-> <<>>, provFailed |-> "none"]

Item == s.page[s.i]

\* raise HTTPException(status_code=...), or an exception nothing catches
Abort(outcome) ==
    [NoRequest EXCEPT !.pc = "done", !.region = s.region, !.page = s.page,
                      !.catalog = s.catalog, !.outcome = outcome]

\* `continue` or the end of the loop body: the next item, or the sort and the return
Continue(results) ==
    IF s.i >= Len(s.page)
    THEN [NoRequest EXCEPT !.pc = "done", !.region = s.region, !.page = s.page,
                           !.catalog = s.catalog, !.outcome = "ok",
                           !.results = SortedDesc(results)]
    ELSE [NoRequest EXCEPT !.pc = "item_get", !.region = s.region, !.page = s.page,
                           !.catalog = s.catalog, !.outcome = "pending",
                           !.i = s.i + 1, !.results = results]

\* a test that takes every item for not cached
NeverHit(cached) == FALSE

\* `if cached:` of search_movies
DetailHit(cached) == Truthy(cached)

\* a request arrives: the check of the two keys, then the catalog search call
StartSearch(region) ==
    /\ s.pc \in {"idle", "done"}
    /\ IF ~apiKeys.tmdb \/ ~apiKeys.omdb
       THEN /\ s' = [NoRequest EXCEPT !.pc = "done", !.region = region, !.outcome = "http_500"]
            /\ calls' = NoCalls
       ELSE /\ s' = [NoRequest EXCEPT !.pc = "catalog", !.region = region, !.outcome = "pending"]
            /\ calls' = [NoCalls EXCEPT !.catalog = 1]
    /\ UNCHANGED <<cache, now, clientVars, otherVars, apiKeys>>

\* the catalog search call ends
CatalogReply(outcome, page) ==
    /\ s.pc = "catalog"
    /\ IF outcome = "transport"
       THEN /\ s' = [Abort("exception") EXCEPT !.catalog = "transport", !.page = <<>>]
            /\ calls' = calls
       ELSE IF outcome # "200"
       THEN /\ s' = [Abort("http_502") EXCEPT !.catalog = "status", !.page = <<>>]
            /\ calls' = calls
       ELSE /\ s' = IF page = <<>>
                    THEN [NoRequest EXCEPT !.pc = "done", !.region = s.region,
                                           !.catalog = "ok", !.outcome = "ok"]
                    ELSE [s EXCEPT !.pc = "item_get", !.page = page, !.i = 1, !.catalog = "ok"]
            /\ calls' = [calls EXCEPT !.omdb = [j \in 1..Len(page) |-> 0],
                                      !.prov = [j \in 1..Len(page) |-> 0],
                                      !.writes = [j \in 1..Len(page) |-> 0],
                                      !.hit = [j \in 1..Len(page) |-> PyNone],
                                      !.omdbFailed = [j \in 1..Len(page) |-> "none"]]
    /\ UNCHANGED <<cache, now, clientVars, otherVars, apiKeys>>

\* cached = await get_cache(database, cache_key, CACHE_EXPIRY_MOVIE)
ItemGet ==
    /\ s.pc = "item_get"
    /\ LET cached == get_cache(cache, DetailKey(Item), CACHE_EXPIRY_MOVIE, now)
       IN  IF DetailHit(cached)
           THEN /\ s' = Continue(Append(s.results, cached))
                /\ calls' = [calls EXCEPT !.hit[s.i] = cached]
           ELSE /\ s' = [s EXCEPT !.pc = "omdb"]
                /\ calls' = [calls EXCEPT !.omdb[s.i] = @ + 1]
    /\ UNCHANGED <<cache, now, clientVars, otherVars, apiKeys>>

\* a handler that calls the secondary ratings source a second time when the
\* first call ends with a status other than 200
OmdbReplyRetry(outcome) ==
    /\ s.pc = "omdb"
    /\ IF outcome = "transport"
       THEN /\ s' = Abort("exception")
            /\ calls' = [calls EXCEPT !.omdbFailed[s.i] = "transport"]
       ELSE IF outcome # "200" /\ calls.omdb[s.i] < 2
       THEN /\ s' = s
            /\ calls' = [calls EXCEPT !.omdb[s.i] = @ + 1]
       ELSE /\ s' = [s EXCEPT !.pc = "prov_get",
                              !.omdb_data = IF outcome = "200" THEN OmdbBody ELSE EmptyBody]
            /\ calls' = IF outcome = "200" THEN calls
                        ELSE [calls EXCEPT !.omdbFailed[s.i] = "status"]
    /\ UNCHANGED <<cache, now, clientVars, otherVars, apiKeys>>

\* the call of the secondary ratings source ends
OmdbReply(outcome) ==
    /\ s.pc = "omdb"
    /\ IF outcome = "transport"
       THEN /\ s' = Abort("exception")
            /\ calls' = [calls EXCEPT !.omdbFailed[s.i] = "transport"]
       ELSE /\ s' = [s EXCEPT !.pc = "prov_get",
                              !.omdb_data = IF outcome = "200" THEN OmdbBody ELSE EmptyBody]
            /\ calls' = IF outcome = "200" THEN calls
                        ELSE [calls EXCEPT !.omdbFailed[s.i] = "status"]
    /\ UNCHANGED <<cache, now, clientVars, otherVars, apiKeys>>

\* get_tmdb_providers: cached = await get_cache(database, key, CACHE_EXPIRY_MOVIE)
ProvGet ==
    /\ s.pc = "prov_get"
    /\ LET cached == get_cache(cache, ProvidersKey(Item, s.region), CACHE_EXPIRY_MOVIE, now)
       IN  IF Truthy(cached)
           THEN /\ s' = [s EXCEPT !.pc = "detail_delete", !.providers = cached]
                /\ calls' = calls
           ELSE IF ~apiKeys.tmdb
           THEN /\ s' = [s EXCEPT !.pc = "detail_delete", !.providers = NoProviders]
                /\ calls' = calls
           ELSE /\ s' = [s EXCEPT !.pc = "prov_call"]
                /\ calls' = [calls EXCEPT !.prov[s.i] = @ + 1]
    /\ UNCHANGED <<cache, now, clientVars, otherVars, apiKeys>>

\* get_tmdb_providers: the watch/providers call ends
ProvReply(outcome) ==
    /\ s.pc = "prov_call"
    /\ IF outcome = "transport"
       THEN /\ s' = Abort("exception")
            /\ calls' = [calls EXCEPT !.provFailed = "transport"]
       ELSE IF outcome # "200"
       THEN /\ s' = [s EXCEPT !.pc = "detail_delete", !.providers = NoProviders]
            /\ calls' = [calls EXCEPT !.provFailed = "status"]
       ELSE /\ s' = [s EXCEPT !.pc = "prov_delete",
                              !.providers = ParseProviders(ProviderResults(s.region))]
            /\ calls' = calls
    /\ UNCHANGED <<cache, now, clientVars, otherVars, apiKeys>>

\* get_tmdb_providers: set_cache(database, key, parsed), the delete
ProvDelete ==
    /\ s.pc = "prov_delete"
    /\ cache' = DeleteWhere(cache, ProvidersKey(Item, s.region))
    /\ s' = [s EXCEPT !.pc = "prov_insert"]
    /\ UNCHANGED <<now, clientVars, otherVars, apiKeys, calls>>

\* get_tmdb_providers: set_cache(database, key, parsed), the insert
ProvInsert ==
    /\ s.pc = "prov_insert"
    /\ LET r == set_cache_insert(cache, ProvidersKey(Item, s.region), s.providers, now)
       IN  /\ cache' = r.tbl
           /\ IF r.exc = "none"
              THEN /\ s' = [s EXCEPT !.pc = "detail_delete"]
                   /\ calls' = [calls EXCEPT !.writes[s.i] = @ + 1]
              ELSE /\ s' = Abort("exception")
                   /\ calls' = calls
    /\ UNCHANGED <<now, clientVars, otherVars, apiKeys>>

\* set_cache(database, cache_key, movie_detail), the delete
DetailDelete ==
    /\ s.pc = "detail_delete"
    /\ cache' = DeleteWhere(cache, DetailKey(Item))
    /\ s' = [s EXCEPT !.pc = "detail_insert"]
    /\ UNCHANGED <<now, clientVars, otherVars, apiKeys, calls>>

\* set_cache(database, cache_key, movie_detail), the insert, and
\* results.append(movie_detail)
DetailInsert ==
    /\ s.pc = "detail_insert"
    /\ LET movie_detail == MovieDetail(Item, s.omdb_data, s.providers)
           r == set_cache_insert(cache, DetailKey(Item), movie_detail, now)
       IN  /\ cache' = r.tbl
           /\ IF r.exc = "none"
              THEN /\ s' = Continue(Append(s.results, movie_detail))
                   /\ calls' = [calls EXCEPT !.writes[s.i] = @ + 1]
              ELSE /\ s' = Abort("exception")
                   /\ calls' = calls
    /\ UNCHANGED <<now, clientVars, otherVars, apiKeys>>

\* a fresh database, or one whose row for an item of the catalog is corrupt
SearchInit ==
    /\ cache \in {{}, {Row(DetailKey(ItemA), <<Punct("{"), StrTok("id")>>, 0)}}
    /\ now = 0
    /\ pc = [t \in Tasks |-> "idle"]
    /\ arg = [t \in Tasks |-> NoArg]
    /\ last = NoCall
    /\ written = [k \in Keys |-> NoWrite]
    /\ apiKeys \in [tmdb : BOOLEAN, omdb : BOOLEAN]
    /\ s = NoRequest
    /\ calls = NoCalls
    /\ OtherIdle

SearchNext ==
    \/ \E region \in Regions : StartSearch(region)
    \/ \E outcome \in Outcomes, page \in Pages : CatalogReply(outcome, page)
    \/ ItemGet
    \/ \E outcome \in Outcomes : OmdbReply(outcome)
    \/ ProvGet
    \/ \E outcome \in Outcomes : ProvReply(outcome)
    \/ ProvDelete
    \/ ProvInsert
    \/ DetailDelete
    \/ DetailInsert
    \/ ClearCache
    \/ Tick

SpecSearch == SearchInit /\ [][SearchNext]_vars

(***************************************************************************)
(* The /recommendations handler, get_recommendations.                      *)
(***************************************************************************)
\* CACHE_EXPIRY_TREND = timedelta(hours=1): shorter than a tick, counted as
\* one tick (an entry is fresh until the clock of the model advances)
CACHE_EXPIRY_TREND == 1

\* cache_key = "trending_week"
TrendingKey == "trending_week"

\* the result pages of the trending call
TrendingPages == {<<>>, <<ItemA, ItemB>>}

\* {"id": ..., "title": title, "year": year, "poster": ...}
TrendingEntry(item) ==
    PyDict(<< <<"id", PyInt(item.id)>>,
              <<"title", ItemTitle(item)>>,
              <<"year", ItemYear(item)>>,
              <<"poster", IF Truthy(item.poster_path)
                          THEN PyStr("https://image.tmdb.org/t/p/w500" \o item.poster_path[2])
                          ELSE PyNone>> >>)

TrendingResults(page) == PyList([j \in 1..Len(page) |-> TrendingEntry(page[j])])

\* a start that does not look at the key
RecStartNoCheck ==
    /\ rec.pc \in {"idle", "done"}
    /\ LET cached == get_cache(cache, TrendingKey, CACHE_EXPIRY_TREND, now)
       IN  rec' = IF Truthy(cached)
                  THEN [NoRec EXCEPT !.pc = "done", !.outcome = "cache", !.results = cached]
                  ELSE [NoRec EXCEPT !.pc = "call", !.outcome = "pending", !.remote = 1]
    /\ UNCHANGED <<cache, now, clientVars, searchVars, suggestVars, settingsVars, call>>

\* a request arrives: the check of the key, the get_cache, then the trending call
RecStart ==
    /\ rec.pc \in {"idle", "done"}
    /\ IF ~apiKeys.tmdb
       THEN rec' = [NoRec EXCEPT !.pc = "done", !.outcome = "http_500"]
       ELSE LET cached == get_cache(cache, TrendingKey, CACHE_EXPIRY_TREND, now)
            IN  rec' = IF Truthy(cached)
                       THEN [NoRec EXCEPT !.pc = "done", !.outcome = "cache", !.results = cached]
                       ELSE [NoRec EXCEPT !.pc = "call", !.outcome = "pending", !.remote = 1]
    /\ UNCHANGED <<cache, now, clientVars, searchVars, suggestVars, settingsVars, call>>

\* the trending call ends
RecReply(outcome, page) ==
    /\ rec.pc = "call"
    /\ rec' = IF outcome = "transport"
              THEN [rec EXCEPT !.pc = "done", !.outcome = "exception"]
              ELSE IF outcome # "200"
              THEN [rec EXCEPT !.pc = "done", !.outcome = "http_502"]
              ELSE [rec EXCEPT !.pc = "delete", !.results = TrendingResults(page)]
    /\ UNCHANGED <<cache, now, clientVars, searchVars, suggestVars, settingsVars, call>>

\* set_cache(database, cache_key, results), the delete
RecDelete ==
    /\ rec.pc = "delete"
    /\ cache' = DeleteWhere(cache, TrendingKey)
    /\ rec' = [rec EXCEPT !.pc = "insert"]
    /\ UNCHANGED <<now, clientVars, searchVars, suggestVars, settingsVars, call>>

\* set_cache(database, cache_key, results), the insert, and the return
RecInsert ==
    /\ rec.pc = "insert"
    /\ LET r == set_cache_insert(cache, TrendingKey, rec.results, now)
       IN  /\ cache' = r.tbl
           /\ rec' = IF r.exc = "none"
                     THEN [rec EXCEPT !.pc = "done", !.outcome = "ok", !.writes = @ + 1]
                     ELSE [rec EXCEPT !.pc = "done", !.outcome = "exception"]
    /\ UNCHANGED <<now, clientVars, searchVars, suggestVars, settingsVars, call>>

\* a fresh database, and every combination of the two keys set or missing
ConfigInit ==
    /\ cache = {}
    /\ now = 0
    /\ pc = [t \in Tasks |-> "idle"]
    /\ arg = [t \in Tasks |-> NoArg]
    /\ last = NoCall
    /\ written = [k \in Keys |-> NoWrite]
    /\ apiKeys \in [tmdb : BOOLEAN, omdb : BOOLEAN]
    /\ s = NoRequest
    /\ calls = NoCalls
    /\ OtherIdle

\* a /search request and a /recommendations request, running concurrently
ConfigNext ==
    \/ StartSearch(DEFAULT_PROVIDER_REGION)
    \/ \E outcome \in Outcomes, page \in Pages : CatalogReply(outcome, page)
    \/ ItemGet
    \/ \E outcome \in Outcomes : OmdbReply(outcome)
    \/ ProvGet
    \/ \E outcome \in Outcomes : ProvReply(outcome)
    \/ ProvDelete
    \/ ProvInsert
    \/ DetailDelete
    \/ DetailInsert
    \/ RecStart
    \/ \E outcome \in Outcomes, page \in TrendingPages : RecReply(outcome, page)
    \/ RecDelete
    \/ RecInsert
    \/ ClearCache

SpecConfig == ConfigInit /\ [][ConfigNext]_vars

(***************************************************************************)
(* The application settings: get_app_settings and admin_update_settings.   *)
(***************************************************************************)
\* timedelta(minutes=15): shorter than a tick, counted as one tick
CACHE_EXPIRY_SETTINGS == 1

\* cache_key = "app_settings"
SettingsKey == "app_settings"

\* the payloads of PUT /admin/settings
PayloadA == SettingsValue(PyDict(<< <<"genres", PyTrue>> >>), PyDict(<< <<"title", PyTrue>> >>))
PayloadB == SettingsValue(PyDict(<< <<"genres", PyFalse>> >>), PyDict(<< <<"year", PyTrue>> >>))
Payloads == {PayloadA, PayloadB}

SettingsRow(id, value) == [id |-> id, value |-> value]

\* settings_table.select().limit(1): some row of the table, None of an empty one
FetchOne(tbl) ==
    IF tbl = {} THEN {NoRow}
    ELSE {[found |-> TRUE, id |-> r.id, value |-> r.value] : r \in tbl}

\* the id of an inserted row
NextId(tbl) == IF tbl = {} THEN 1 ELSE (CHOOSE i \in {r.id : r \in tbl} : \A r \in tbl : r.id <= i) + 1

\* parsed = {"id": ..., "search_fields": ..., "card_fields": ...}
SettingsDict(id, value) ==
    PyDict(<< <<"id", PyInt(id)>>, <<"search_fields", value.search_fields>>,
              <<"card_fields", value.card_fields>> >>)

\* get_app_settings: cached = await get_cache(...); if cached: return cached
GsGet(t) ==
    /\ gs[t].pc \in {"idle", "done"}
    /\ LET cached == get_cache(cache, SettingsKey, CACHE_EXPIRY_SETTINGS, now)
       IN  gs' = [gs EXCEPT ![t] =
                IF Truthy(cached)
                THEN [NoRead EXCEPT !.pc = "done", !.outcome = "ok"]
                ELSE [NoRead EXCEPT !.pc = "select", !.outcome = "pending",
                                    !.since = (us.pc = "idle" /\ us.done.known)]]
    /\ UNCHANGED <<cache, now, clientVars, searchVars, suggestVars, rec, settings, us, call>>

\* get_app_settings: row = await database.fetch_one(q)
GsSelect(t) ==
    /\ gs[t].pc = "select"
    /\ \E row \in FetchOne(settings) :
          gs' = [gs EXCEPT ![t] =
                   IF row.found
                   THEN [@ EXCEPT !.pc = "delete", !.parsed = SettingsDict(row.id, row.value)]
                   ELSE [@ EXCEPT !.pc = "insert_default"]]
    /\ UNCHANGED <<cache, now, clientVars, searchVars, suggestVars, rec, settings, us, call>>

\* get_app_settings: no row, the insert of the default settings
GsInsertDefault(t) ==
    /\ gs[t].pc = "insert_default"
    /\ settings' = settings \cup {SettingsRow(NextId(settings), DefaultSettings)}
    /\ gs' = [gs EXCEPT ![t] = [@ EXCEPT !.pc = "delete",
                                          !.parsed = SettingsDict(NextId(settings), DefaultSettings)]]
    /\ UNCHANGED <<cache, now, clientVars, searchVars, suggestVars, rec, us, call>>

\* get_app_settings: set_cache(database, cache_key, parsed), the delete
GsDelete(t) ==
    /\ gs[t].pc = "delete"
    /\ cache' = DeleteWhere(cache, SettingsKey)
    /\ gs' = [gs EXCEPT ![t] = [@ EXCEPT !.pc = "insert"]]
    /\ UNCHANGED <<now, clientVars, searchVars, suggestVars, rec, settings, us, call>>

\* get_app_settings: set_cache(database, cache_key, parsed), the insert, and
\* return parsed
GsInsert(t) ==
    /\ gs[t].pc = "insert"
    /\ LET r == set_cache_insert(cache, SettingsKey, gs[t].parsed, now)
       IN  /\ cache' = r.tbl
           /\ gs' = [gs EXCEPT ![t] =
                    IF r.exc = "none"
                    THEN [NoRead EXCEPT !.pc = "done", !.outcome = "ok"]
                    ELSE [NoRead EXCEPT !.pc = "done", !.outcome = "exception"]]
    /\ UNCHANGED <<now, clientVars, searchVars, suggestVars, rec, settings, us, call>>

\* admin_update_settings: row = await database.fetch_one(q)
UpdSelect(payload) ==
    /\ us.pc = "idle"
    /\ \E row \in FetchOne(settings) :
          us' = [us EXCEPT !.pc = "write", !.row = row, !.payload = payload]
    /\ gs' = [t \in Tasks |-> IF gs[t].pc \in {"idle", "done"} THEN gs[t]
                               ELSE [gs[t] EXCEPT !.since = FALSE]]
    /\ UNCHANGED <<cache, now, clientVars, searchVars, suggestVars, rec, settings, call>>

\* admin_update_settings: the insert, or the update of the row it selected
UpdWrite ==
    /\ us.pc = "write"
    /\ settings' = IF ~us.row.found
                   THEN settings \cup {SettingsRow(NextId(settings), us.payload)}
                   ELSE {IF r.id = us.row.id THEN SettingsRow(r.id, us.payload) ELSE r :
                            r \in settings}
    /\ us' = [us EXCEPT !.pc = "invalidate"]
    /\ UNCHANGED <<cache, now, clientVars, searchVars, suggestVars, rec, gs, call>>

\* admin_update_settings: cache.delete().where(cache.c.key == "app_settings"),
\* and the return
UpdInvalidate ==
    /\ us.pc = "invalidate"
    /\ cache' = DeleteWhere(cache, SettingsKey)
    /\ us' = [NoUpdate EXCEPT !.done = [known |-> TRUE, payload |-> us.payload]]
    /\ UNCHANGED <<now, clientVars, searchVars, suggestVars, rec, settings, gs, call>>

\* a fresh database, or one that holds the default settings
SettingsInit ==
    /\ cache = {}
    /\ now = 0
    /\ pc = [t \in Tasks |-> "idle"]
    /\ arg = [t \in Tasks |-> NoArg]
    /\ last = NoCall
    /\ written = [k \in Keys |-> NoWrite]
    /\ apiKeys = [tmdb |-> TRUE, omdb |-> TRUE]
    /\ s = NoRequest
    /\ calls = NoCalls
    /\ rec = NoRec
    /\ settings \in {{}, {SettingsRow(1, DefaultSettings)}}
    /\ gs = [t \in Tasks |-> NoRead]
    /\ us = NoUpdate
    /\ call = NoFn
    /\ sg = NoSuggest
    /\ hfToken = FALSE

SettingsNext ==
    \/ \E t \in Tasks : GsGet(t)
    \/ \E t \in Tasks : GsSelect(t)
    \/ \E t \in Tasks : GsInsertDefault(t)
    \/ \E t \in Tasks : GsDelete(t)
    \/ \E t \in Tasks : GsInsert(t)
    \/ \E payload \in Payloads : UpdSelect(payload)
    \/ UpdWrite
    \/ UpdInvalidate

SpecSettings == SettingsInit /\ [][SettingsNext]_vars

(***************************************************************************)
(* The /suggest handler, suggest.  A query and a generated text are        *)
(* sequences of characters.                                                *)
(***************************************************************************)
\* timedelta(hours=6): shorter than a tick, counted as one tick
CACHE_EXPIRY_SUGGEST == 1
\* CACHE_EXPIRY_LLM = timedelta(hours=24)
CACHE_EXPIRY_LLM == 2
\* data.get("results", [])[:8]
TitleLimit == 8
\* [...][:6]
LlmLimit == 6

\* the queries of the requests (min_length=2)
Queries == {<<"H", "i">>, <<" ", "h", "i", " ">>, <<"G", "o">>}

\* str.lower, on the characters that occur
LowerChar(c) ==
    CASE c = "H" -> "h"
      [] c = "G" -> "g"
      [] OTHER -> c

Lower(str) == [i \in 1..Len(str) |-> LowerChar(str[i])]

\* str.strip
RECURSIVE LStrip(_)
LStrip(str) == IF str # <<>> /\ Head(str) = " " THEN LStrip(Tail(str)) ELSE str

RECURSIVE RStrip(_)
RStrip(str) ==
    IF str # <<>> /\ str[Len(str)] = " " THEN RStrip(SubSeq(str, 1, Len(str) - 1)) ELSE str

Strip(str) == RStrip(LStrip(str))

\* the characters of a string, as one string
RECURSIVE Join(_)
Join(str) == IF str = <<>> THEN "" ELSE Head(str) \o Join(Tail(str))

\* hashlib.sha256(str.encode()).hexdigest(): the digests of two strings
\* differ when the strings differ
Sha256(str) == "sha256(" \o Join(str) \o ")"

\* qnorm = query.strip().lower()
QNorm(query) == Lower(Strip(query))

\* cache_key = f"suggest_{sha256(qnorm)}"
SuggestKey(query) == "suggest_" \o Sha256(QNorm(query))

\* llm_key = f"llm_suggest_{sha256(query.lower())}"
LlmKey(query) == "llm_suggest_" \o Sha256(Lower(query))

\* seq[:n]
Take(seq, n) == SubSeq(seq, 1, IF Len(seq) < n THEN Len(seq) ELSE n)

\* the items of a search/multi body: a movie, a person, an item with no name
SuggestPages ==
    LET TitleItem == [title |-> PyStr("Hi Mom"), name |-> PyNone]
        NameItem == [title |-> PyNone, name |-> PyStr("Hi Fi")]
        BlankItem == [title |-> PyNone, name |-> PyNone]
    IN  {<<>>, <<BlankItem>>, <<TitleItem, BlankItem, NameItem, TitleItem>>}

\* title = item.get("title") or item.get("name"), appended when it is not
\* empty and not in suggestions yet
RECURSIVE CollectTitles(_, _)
CollectTitles(items, suggestions) ==
    IF items = <<>> THEN suggestions
    ELSE LET title == Or(Head(items).title, Head(items).name)
         IN  CollectTitles(Tail(items),
                 IF Truthy(title) /\ ~\E i \in 1..Len(suggestions) : suggestions[i] = title
                 THEN Append(suggestions, title) ELSE suggestions)

\* what the text generation returned after the prompt
LlmTexts == {<<>>, <<" ", ",", " ">>, <<"h", "i", ",", " ", "h", "o", "\\", "n", "h", "a", " ">>}

\* text.replace("\\n", ","): a backslash followed by n becomes a comma
RECURSIVE ReplaceNewline(_)
ReplaceNewline(text) ==
    IF text = <<>> THEN <<>>
    ELSE IF Len(text) >= 2 /\ text[1] = "\\" /\ text[2] = "n"
    THEN <<",">> \o ReplaceNewline(SubSeq(text, 3, Len(text)))
    ELSE <<Head(text)>> \o ReplaceNewline(Tail(text))

\* str.split(","), cur being the part read since the last comma
RECURSIVE Split(_, _)
Split(text, cur) ==
    IF text = <<>> THEN <<cur>>
    ELSE IF Head(text) = "," THEN <<cur>> \o Split(Tail(text), <<>>)
    ELSE Split(Tail(text), Append(cur, Head(text)))

\* [s.strip() for s in parts if s.strip()]
RECURSIVE StripParts(_)
StripParts(parts) ==
    IF parts = <<>> THEN <<>>
    ELSE (IF Strip(Head(parts)) = <<>> THEN <<>> ELSE <<PyStr(Join(Strip(Head(parts))))>>)
         \o StripParts(Tail(parts))

\* the suggestions of a generated text: text is generated with the prompt
\* removed
LlmSuggestions(text) ==
    PyList(Take(StripParts(Split(ReplaceNewline(Strip(text)), <<>>)), LlmLimit))

\* the request that last completed for a normalized query, and when
Completed(done, query, t) ==
    {c \in done : c.q # Join(QNorm(query))} \cup {[q |-> Join(QNorm(query)), at |-> t]}

\* a request arrives: the get_cache of cache_key, `if cached`, then the
\* search/multi call when TMDB_API_KEY is set
SgStart(query) ==
    /\ sg.pc \in {"idle", "done"}
    /\ LET cached == get_cache(cache, SuggestKey(query), CACHE_EXPIRY_SUGGEST, now)
           prior == \E c \in sg.completed :
                       c.q = Join(QNorm(query)) /\ now - c.at < CACHE_EXPIRY_SUGGEST
           request == [NoSuggest EXCEPT !.query = query, !.prior = prior,
                                        !.completed = sg.completed]
       IN  sg' = IF Truthy(cached)
                 THEN [request EXCEPT !.pc = "done", !.source = "cache", !.suggestions = cached,
                                      !.completed = Completed(@, query, now)]
                 ELSE IF apiKeys.tmdb
                 THEN [request EXCEPT !.pc = "tmdb", !.source = "pending", !.remote = 1]
                 ELSE [request EXCEPT !.pc = "fallback", !.source = "pending"]
    /\ UNCHANGED <<cache, now, clientVars, searchVars, rec, settingsVars, call, hfToken>>

\* the search/multi call ends: httpx raises, or the titles of a body with
\* status 200 are collected
SgTmdbReply(outcome, items) ==
    /\ sg.pc = "tmdb"
    /\ sg' = IF outcome = "transport"
             THEN [sg EXCEPT !.pc = "done", !.source = "exception"]
             ELSE IF outcome # "200"
             THEN [sg EXCEPT !.pc = "fallback"]
             ELSE [sg EXCEPT !.pc = "fallback",
                             !.suggestions = PyList(CollectTitles(Take(items, TitleLimit), <<>>))]
    /\ UNCHANGED <<cache, now, clientVars, searchVars, rec, settingsVars, call, hfToken>>

\* `if not suggestions and HF_API_TOKEN`: the get_cache of llm_key, then the
\* text generation call on a miss
SgFallback ==
    /\ sg.pc = "fallback"
    /\ IF ~Truthy(sg.suggestions) /\ hfToken
       THEN LET llm_cached == get_cache(cache, LlmKey(sg.query), CACHE_EXPIRY_LLM, now)
            IN  sg' = IF Truthy(llm_cached)
                      THEN [sg EXCEPT !.pc = "llm_delete", !.suggestions = llm_cached]
                      ELSE [sg EXCEPT !.pc = "llm", !.remote = @ + 1]
       ELSE sg' = [sg EXCEPT !.pc = "delete"]
    /\ UNCHANGED <<cache, now, clientVars, searchVars, rec, settingsVars, call, hfToken>>

\* the text generation call ends; `if suggestions` before the set_cache of
\* llm_key
SgLlmReply(outcome, text) ==
    /\ sg.pc = "llm"
    /\ LET suggestions == IF outcome = "200" THEN LlmSuggestions(text) ELSE sg.suggestions
       IN  sg' = IF outcome = "transport"
                 THEN [sg EXCEPT !.pc = "done", !.source = "exception"]
                 ELSE [sg EXCEPT !.pc = IF Truthy(suggestions) THEN "llm_delete" ELSE "delete",
                                 !.suggestions = suggestions]
    /\ UNCHANGED <<cache, now, clientVars, searchVars, rec, settingsVars, call, hfToken>>

\* set_cache(database, llm_key, suggestions), the delete
SgLlmDelete ==
    /\ sg.pc = "llm_delete"
    /\ cache' = DeleteWhere(cache, LlmKey(sg.query))
    /\ sg' = [sg EXCEPT !.pc = "llm_insert"]
    /\ UNCHANGED <<now, clientVars, searchVars, rec, settingsVars, call, hfToken>>

\* set_cache(database, llm_key, suggestions), the insert
SgLlmInsert ==
    /\ sg.pc = "llm_insert"
    /\ LET r == set_cache_insert(cache, LlmKey(sg.query), sg.suggestions, now)
       IN  /\ cache' = r.tbl
           /\ sg' = IF r.exc = "none"
                    THEN [sg EXCEPT !.pc = "delete"]
                    ELSE [sg EXCEPT !.pc = "done", !.source = "exception"]
    /\ UNCHANGED <<now, clientVars, searchVars, rec, settingsVars, call, hfToken>>

\* set_cache(database, cache_key, suggestions), the delete
SgDelete ==
    /\ sg.pc = "delete"
    /\ cache' = DeleteWhere(cache, SuggestKey(sg.query))
    /\ sg' = [sg EXCEPT !.pc = "insert"]
    /\ UNCHANGED <<now, clientVars, searchVars, rec, settingsVars, call, hfToken>>

\* set_cache(database, cache_key, suggestions), the insert, and the return
SgInsert ==
    /\ sg.pc = "insert"
    /\ LET r == set_cache_insert(cache, SuggestKey(sg.query), sg.suggestions, now)
       IN  /\ cache' = r.tbl
           /\ sg' = IF r.exc = "none"
                    THEN [sg EXCEPT !.pc = "done",
                                    !.source = IF Truthy(sg.suggestions) THEN "tmdb" ELSE "none",
                                    !.completed = Completed(@, sg.query, now)]
                    ELSE [sg EXCEPT !.pc = "done", !.source = "exception"]
    /\ UNCHANGED <<now, clientVars, searchVars, rec, settingsVars, call, hfToken>>

\* a fresh database, and every combination of TMDB_API_KEY and HF_API_TOKEN
\* set or missing
SuggestInit ==
    /\ cache = {}
    /\ now = 0
    /\ pc = [t \in Tasks |-> "idle"]
    /\ arg = [t \in Tasks |-> NoArg]
    /\ last = NoCall
    /\ written = [k \in Keys |-> NoWrite]
    /\ apiKeys \in [tmdb : BOOLEAN, omdb : {TRUE}]
    /\ s = NoRequest
    /\ calls = NoCalls
    /\ rec = NoRec
    /\ settings = {}
    /\ gs = [t \in Tasks |-> NoRead]
    /\ us = NoUpdate
    /\ call = NoFn
    /\ sg = NoSuggest
    /\ hfToken \in BOOLEAN

\* /suggest requests, one after the other, while time passes
SuggestNext ==
    \/ \E query \in Queries : SgStart(query)
    \/ \E outcome \in Outcomes, items \in SuggestPages : SgTmdbReply(outcome, items)
    \/ SgFallback
    \/ \E outcome \in Outcomes, text \in LlmTexts : SgLlmReply(outcome, text)
    \/ SgLlmDelete
    \/ SgLlmInsert
    \/ SgDelete
    \/ SgInsert
    \/ Tick

SpecSuggest == SuggestInit /\ [][SuggestNext]_vars

(***************************************************************************)
(* Calls of the functions without side effects, on arguments drawn from    *)
(* bounded sets.                                                           *)
(***************************************************************************)
\* no request is in progress and the database is fresh
AllIdle ==
    /\ cache = {}
    /\ now = 0
    /\ pc = [t \in Tasks |-> "idle"]
    /\ arg = [t \in Tasks |-> NoArg]
    /\ last = NoCall
    /\ written = [k \in Keys |-> NoWrite]
    /\ apiKeys = [tmdb |-> TRUE, omdb |-> TRUE]
    /\ s = NoRequest
    /\ calls = NoCalls
    /\ rec = NoRec
    /\ settings = {}
    /\ gs = [t \in Tasks |-> NoRead]
    /\ us = NoUpdate
    /\ sg = NoSuggest
    /\ hfToken = FALSE

RatingsInit ==
    /\ AllIdle
    /\ \E tmdb_score \in TmdbScores, imdb \in ImdbRatings, rt \in RtRatings :
          call = [NoFn EXCEPT !.args = <<tmdb_score, imdb, rt>>]

RatingsNext ==
    \/ CallAggregate
    \/ CallNormalizeTmdb
    \/ CallNormalizeImdb
    \/ CallNormalizeRt

SpecRatings == RatingsInit /\ [][RatingsNext]_vars

\* the aggregated ratings of the records that are sorted
SortRatings == {PyNone, PyFloat(0), PyFloat(400), PyFloat(900)}

\* a record of results, as far as the sort reads it
ResultRecord(id, rating) == PyDict(<< <<"id", PyInt(id)>>, <<"aggregated_rating", rating>> >>)

\* results, in the order the catalog returned the items
SortInit ==
    /\ AllIdle
    /\ \E n \in 0..MaxResults : \E ratings \in [1..n -> SortRatings] :
          call = [NoFn EXCEPT !.args = [j \in 1..n |-> ResultRecord(j, ratings[j])]]

\* results_sorted = sorted(results, key=..., reverse=True)
CallSorted ==
    /\ call.fn = "none"
    /\ call' = [call EXCEPT !.fn = "sorted", !.ret = SortedDesc(call.args)]
    /\ UNCHANGED <<cache, now, clientVars, searchVars, suggestVars, rec, settingsVars>>

SortNext == CallSorted

SpecSort == SortInit /\ [][SortNext]_vars

\* the provider names of one category of a region, in the order of the body
CategoryLists ==
    {<<>>, <<"Netflix">>, <<"Hulu">>, <<"Netflix", "Hulu">>, <<"Hulu", "Netflix">>,
     <<"Netflix", "Netflix">>, <<"">>, <<"", "Hulu">>}

\* region_info of a watch/providers body
ProvidersInit ==
    /\ AllIdle
    /\ \E flatrate \in CategoryLists, rent \in CategoryLists,
          buy \in CategoryLists, ads \in CategoryLists :
          call = [NoFn EXCEPT !.args = [flatrate |-> flatrate, rent |-> rent, buy |-> buy,
                                        ads |-> ads, link |-> PyNone]]

\* get_tmdb_providers: provider_names and parsed, of a body with status 200
CallParseProviders ==
    /\ call.fn = "none"
    /\ call' = [call EXCEPT !.fn = "get_tmdb_providers", !.ret = ParseProviders(call.args)]
    /\ UNCHANGED <<cache, now, clientVars, searchVars, suggestVars, rec, settingsVars>>

ProvidersNext == CallParseProviders

SpecProviders == ProvidersInit /\ [][ProvidersNext]_vars

(***************************************************************************)
(* The specification of the store under two concurrent clients.            *)
(***************************************************************************)
Init ==
    /\ StoreInit
    /\ apiKeys = [tmdb |-> TRUE, omdb |-> TRUE]
    /\ s = NoRequest
    /\ calls = NoCalls
    /\ OtherIdle

Next ==
    \/ \E t \in Tasks, k \in Keys, e \in Expiries : GetCache(t, k, e)
    \/ \E t \in Tasks, k \in Keys, v \in Values : SetCacheDelete(t, k, v)
    \/ \E t \in Tasks : SetCacheInsert(t)
    \/ \E k \in Keys : DeleteKey(k)
    \/ ClearCache
    \/ Tick

Spec == Init /\ [][Next]_vars

\* a whole set_cache call of a client that runs alone: the delete, then the
\* insert, with no statement of another task between them
SetCacheCall(k, v) ==
    /\ \A t \in Tasks : pc[t] = "idle"
    /\ cache' = set_cache(cache, k, v, now)
    /\ LET r == set_cache_insert(DeleteWhere(cache, k), k, v, now)
       IN  /\ last' = [op |-> "set", key |-> k, expiry |-> 0, ret |-> v, exc |-> r.exc,
                       over |-> written[k].st = "live"]
           /\ written' = [written EXCEPT ![k] =
                  IF r.exc = "none" THEN [st |-> "live", value |-> v, at |-> now] ELSE NoWrite]
    /\ UNCHANGED <<now, pc, arg, searchVars, otherVars>>

\* one client that makes its set_cache calls one after the other
UpsertNext ==
    \/ \E k \in Keys, v \in Values : SetCacheCall(k, v)
    \/ Tick

SpecUpsert == Init /\ [][UpsertNext]_vars

(***************************************************************************)
(* The store: claims.                                                      *)
(***************************************************************************)
Entries(k) == RowsOf(cache, k)

\* C1: a get_cache on a key whose last statement was the insert of
\* set_cache(key, value), with an expiry greater than the age of that write
\* (any positive expiry right after the write), returns the value written.
C1_SetThenGet ==
    \A k \in Keys : written[k].st = "live" =>
        \A e \in Expiries : now - written[k].at < e =>
            get_cache_call(cache, k, e, now) = Return(written[k].value)

C1_Witness ==
    /\ last.op = "get" /\ last.ret = ProvidersValue
    /\ written[last.key].st = "live"
    /\ written[last.key].value = ProvidersValue
    /\ written[last.key].at = now

\* C2: get_cache returns a value only for an entry whose age is strictly
\* less than the expiry, and returns None for every entry whose age is equal
\* to or greater than the expiry.
C2_FreshOnly ==
    \A k \in Keys, e \in Expiries :
        /\ get_cache(cache, k, e, now) # PyNone =>
              \E r \in Entries(k) : now - r.timestamp < e
        /\ \A r \in Entries(k) : now - r.timestamp >= e =>
              get_cache(cache, k, e, now) = PyNone

C2_Witness ==
    /\ last.op = "get" /\ last.ret = PyNone
    /\ \E r \in Entries(last.key) :
          /\ now - r.timestamp = last.expiry
          /\ r.value = json_dumps(ProvidersValue)

\* C3: when a set_cache(key, v2) that replaces the value of an earlier
\* set_cache(key, v1) completes, the table holds exactly one row for key and
\* a get_cache of the key returns v2.
C3_Overwrite ==
    [][\A t \in Tasks :
          (SetCacheInsert(t) /\ Replaces(t, arg[t].key) /\ Serializable(arg[t].value)) =>
              /\ Cardinality(RowsOf(cache', arg[t].key)) = 1
              /\ \A e \in Expiries :
                    get_cache(cache', arg[t].key, e, now') = arg[t].value]_vars

C3_Witness ==
    /\ last.op = "set" /\ last.over /\ last.exc = "none"
    /\ last.ret = EmptyList
    /\ Cardinality(Entries(last.key)) = 1
    /\ get_cache(cache, last.key, 1, now) = EmptyList

\* C4: in every reachable state the table holds at most one row per key.
C4_OneRowPerKey == \A k \in Keys : Cardinality(Entries(k)) <= 1

\* two writers of one key interleaved: the second insert was rejected
C4_Witness ==
    /\ last.op = "set" /\ last.exc = "IntegrityError"
    /\ Cardinality(Entries(last.key)) = 1

\* C5: a get_cache that runs between the delete and the insert of a
\* set_cache(key, v2), on a key that held v1 of a fresh earlier write, returns
\* v1 or v2 and never None.
C5_AtomicReplace ==
    [][\A t \in Tasks, k \in Keys, e \in Expiries :
          (/\ GetCache(t, k, e)
           /\ written[k].st = "replacing"
           /\ now - written[k].at < e
           /\ InFlight(k) # {}
           /\ \A q \in InFlight(k) : Serializable(arg[q].value)) =>
              last'.ret \in {written[k].value} \cup {arg[q].value : q \in InFlight(k)}]_vars

\* C6: no get_cache and no set_cache call (of a serializable value) raises.
C6_NoErrorToCaller ==
    (last.op = "get" \/ (last.op = "set" /\ Serializable(last.ret))) => last.exc = "none"

\* C7: for a fresh entry whose payload is empty or does not parse, get_cache
\* returns None without raising, as it does for a key with no entry.
C7_CorruptIsMiss ==
    \A k \in Keys, e \in Expiries : \A r \in Entries(k) :
        (Fresh(r, e, now) /\ (r.value = <<>> \/ ~json_loads(r.value).ok)) =>
            get_cache_call(cache, k, e, now) = get_cache_call({}, k, e, now)

C7_Witness ==
    /\ last.op = "get" /\ last.ret = PyNone /\ last.exc = "none"
    /\ \E r \in Entries(last.key) :
          /\ Fresh(r, last.expiry, now)
          /\ r.value # <<>> /\ ~json_loads(r.value).ok

\* the key-to-value mapping of a table: the keys with their stored payloads
Mapping(tbl) == {<<r.key, r.value>> : r \in tbl}

\* C21: from every table, for distinct keys k1 and k2, set(k1, v1) then
\* set(k2, v2) and set(k2, v2) then set(k1, v1) give the same key-to-value
\* mapping; set(k1, v1) leaves the row of every other key as it was; and
\* set(k1, v1) twice gives the same mapping as once.
C21_SetCommutes ==
    \A k1 \in Keys, v1 \in Values :
        /\ \A k2 \in Keys \ {k1} :
              /\ RowsOf(set_cache(cache, k1, v1, now), k2) = RowsOf(cache, k2)
              /\ \A v2 \in Values :
                    Mapping(set_cache(set_cache(cache, k1, v1, now), k2, v2, now))
                      = Mapping(set_cache(set_cache(cache, k2, v2, now), k1, v1, now))
        /\ Mapping(set_cache(set_cache(cache, k1, v1, now), k1, v1, now))
              = Mapping(set_cache(cache, k1, v1, now))

\* both keys hold values of completed set_cache calls, written in the order
\* k2 then k1, and the table is the one that the calls in the order k1 then
\* k2 give from the empty table
C21_Witness ==
    /\ last.op = "set" /\ last.key = "k1" /\ last.exc = "none"
    /\ written["k1"].st = "live" /\ written["k1"].value = EmptyList
    /\ written["k2"].st = "live" /\ written["k2"].value = ProvidersValue
    /\ written["k2"].at < written["k1"].at
    /\ Mapping(cache) = Mapping(set_cache(set_cache({}, "k1", EmptyList, now), "k2", ProvidersValue, now))

\* C19: a get_cache call leaves the table as it was: the same rows, with the
\* same values and timestamps, whether it hit, missed, or found the entry
\* stale or corrupt.
C19_GetLeavesStore ==
    [][\A t \in Tasks, k \in Keys, e \in Expiries : GetCache(t, k, e) => cache' = cache]_vars

\* a get of an entry older than the expiry returned None, and the entry is
\* still in place
C19_Witness ==
    /\ last.op = "get" /\ last.ret = PyNone
    /\ \E r \in Entries(last.key) :
          /\ now - r.timestamp > last.expiry
          /\ r.value = json_dumps(EmptyList)

\* C20: when a set_cache(key, value) that replaces the value of an earlier
\* write fails, the row of the earlier write is still in the table, with its
\* value and its timestamp.
C20_FailedSetKeepsEntry ==
    [][\A t \in Tasks :
          (SetCacheInsert(t) /\ Replaces(t, arg[t].key) /\ last'.exc # "none") =>
              \E r \in RowsOf(cache', arg[t].key) :
                  /\ r.value = json_dumps(written[arg[t].key].value)
                  /\ r.timestamp = written[arg[t].key].at]_vars

(***************************************************************************)
(* The /search handler: claims.                                            *)
(***************************************************************************)
\* the record json.loads gives for the payload of a row
Loaded(r) == json_loads(r.value).val

\* the rows of the item's key that are fresh under the 24 hours and hold a record
FreshRecords(item) ==
    {r \in RowsOf(cache, DetailKey(item)) :
        /\ Fresh(r, CACHE_EXPIRY_MOVIE, now)
        /\ r.value # <<>> /\ json_loads(r.value).ok /\ Truthy(Loaded(r))}

Positions == DOMAIN calls.hit

\* the request made no remote call and no cache write for the item at position j
NoWorkFor(j) == calls.omdb[j] = 0 /\ calls.prov[j] = 0 /\ calls.writes[j] = 0

HitsServed ==
    \A j \in Positions : calls.hit[j] # PyNone =>
        /\ NoWorkFor(j)
        /\ (s.pc = "done" /\ s.outcome = "ok") =>
              \E m \in 1..Len(s.results) : s.results[m] = calls.hit[j]

\* C8: when search reads the key of an item that holds a fresh record (age
\* under the 24 hours), it takes that record unchanged into its results and
\* goes on to the next item; for that item it makes no secondary-ratings
\* call, no provider call and no cache write, and a search that completes
\* returns the record.
C8_CacheHit ==
    [][/\ (ItemGet /\ FreshRecords(Item) # {}) =>
              \A r \in FreshRecords(Item) :
                  /\ calls'.hit[s.i] = Loaded(r)
                  /\ s'.pc \in {"item_get", "done"}
                  /\ s'.pc = "item_get" => s'.results = Append(s.results, Loaded(r))
                  /\ cache' = cache
                  /\ calls'.omdb = calls.omdb /\ calls'.prov = calls.prov
                  /\ calls'.writes = calls.writes
       /\ HitsServed']_vars

\* a page of two items, one served from the cache and one fetched
C8_Witness ==
    /\ s.pc = "done" /\ s.outcome = "ok" /\ Len(s.page) = 2
    /\ \E j, m \in Positions :
          /\ calls.hit[j] # PyNone /\ NoWorkFor(j)
          /\ calls.hit[m] = PyNone /\ calls.omdb[m] = 1
    /\ \E n \in 1..Len(s.results) : s.results[n] \in {calls.hit[j] : j \in Positions}

\* C9: a search in which a call of the secondary ratings source failed (a
\* status other than 200, a timeout, no connection) completes, with a record
\* for every item of the page, and the record of the item has no ratings of
\* that source.
C9_OmdbFailureTolerated ==
    (/\ s.pc = "done"
     /\ \E j \in Positions : calls.omdbFailed[j] # "none"
     /\ calls.provFailed # "transport") =>
        /\ s.outcome = "ok"
        /\ Len(s.results) = Len(s.page)
        /\ \A j \in Positions : calls.omdbFailed[j] # "none" =>
              \E m \in 1..Len(s.results) :
                  /\ DictGet(s.results[m], "id", PyNone) = PyInt(s.page[j].id)
                  /\ DictGet(s.results[m], "imdb_rating", PyTrue) = PyNone
                  /\ DictGet(s.results[m], "rotten_tomatoes_rating", PyTrue) = PyNone

\* C10: a search whose catalog call failed (a status other than 200, or no
\* response) ends with the upstream error (502), returns no results, and
\* made no secondary-ratings call, no provider call and no cache write.
C10_CatalogFailureAborts ==
    (s.pc = "done" /\ s.catalog \in {"status", "transport"}) =>
        /\ s.outcome = "http_502"
        /\ s.results = <<>>
        /\ calls.omdb = <<>> /\ calls.prov = <<>> /\ calls.writes = <<>>

\* C22: within one search request the catalog search endpoint is called
\* exactly once (not at all when a key is missing), and for each item of
\* the page the secondary ratings source and the provider endpoint are
\* called at most once each, whatever the calls end with.
C22_NoRetry ==
    /\ calls.catalog = IF s.pc = "idle" \/ s.outcome = "http_500" THEN 0 ELSE 1
    /\ \A j \in DOMAIN calls.omdb : calls.omdb[j] <= 1
    /\ \A j \in DOMAIN calls.prov : calls.prov[j] <= 1
    /\ (s.pc = "done" /\ s.outcome = "ok") =>
          \A j \in Positions : calls.hit[j] = PyNone => calls.omdb[j] = 1

\* a search of two items completed after a failed ratings call and a failed
\* provider call, each made once
C22_Witness ==
    /\ s.pc = "done" /\ s.outcome = "ok" /\ Len(s.page) = 2
    /\ calls.catalog = 1 /\ calls.provFailed = "status"
    /\ \E j \in Positions :
          calls.omdbFailed[j] = "status" /\ calls.omdb[j] = 1 /\ calls.prov[j] = 1

\* the provider data of the region a search was made for
OwnProviders == ParseProviders(ProviderResults(s.region))

\* C23: every record that a completed search returns carries the platforms
\* and the provider link of the region of that search (or none, when the
\* provider call failed).
C23_RegionOfRequest ==
    (s.pc = "done" /\ s.outcome = "ok") =>
        \A m \in 1..Len(s.results) :
            /\ \/ DictGet(s.results[m], "platforms", PyNone) = DictGet(OwnProviders, "providers", PyNone)
               \/ DictGet(s.results[m], "platforms", PyNone) = PyList(<<>>)
            /\ \/ DictGet(s.results[m], "provider_link", PyTrue) = DictGet(OwnProviders, "link", PyNone)
               \/ DictGet(s.results[m], "provider_link", PyTrue) = PyNone

(***************************************************************************)
(* Suggestions: claims.                                                    *)
(***************************************************************************)
\* C24: a suggest request that starts while an earlier request for the same
\* normalized query has completed less than the suggestion expiry ago makes
\* no remote call and is answered with source "cache", whatever list the
\* earlier request returned.
C24_SuggestFromCache ==
    sg.prior => /\ sg.remote = 0
                /\ sg.pc = "done" => sg.source = "cache"

(***************************************************************************)
(* Missing credentials: claims.                                            *)
(***************************************************************************)
\* C11: with the catalog key or the ratings key missing, a search ends with
\* the configuration error (500) and never makes a remote call or a cache
\* write; with the catalog key missing, a recommendations request ends with
\* the configuration error and never makes a remote call or a cache write.
C11_MissingCredential ==
    /\ (~apiKeys.tmdb \/ ~apiKeys.omdb) =>
          /\ s.pc \in {"idle", "done"}
          /\ s.pc = "done" => s.outcome = "http_500"
          /\ calls = NoCalls
    /\ ~apiKeys.tmdb =>
          /\ rec.pc \in {"idle", "done"}
          /\ rec.pc = "done" => rec.outcome = "http_500"
          /\ rec.remote = 0 /\ rec.writes = 0
          /\ cache = {}

C11_Witness ==
    /\ ~apiKeys.tmdb /\ apiKeys.omdb
    /\ s.pc = "done" /\ s.outcome = "http_500"
    /\ rec.pc = "done" /\ rec.outcome = "http_500"

(***************************************************************************)
(* The application settings: claims.                                       *)
(***************************************************************************)
\* the settings in a value that get_app_settings returns are those of the payload
SettingsAre(ret, payload) ==
    /\ DictGet(ret, "search_fields", PyNone) = payload.search_fields
    /\ DictGet(ret, "card_fields", PyNone) = payload.card_fields

\* C12: a get_app_settings call that starts after a settings update has
\* completed, with no later update under way before it returns, returns the
\* settings of that update, from the cache or from the table.
C12_UpdateInvalidates ==
    [][\A t \in Tasks :
          /\ (GsGet(t) /\ gs'[t].pc = "done" /\ us.pc = "idle" /\ us.done.known) =>
                SettingsAre(get_cache(cache, SettingsKey, CACHE_EXPIRY_SETTINGS, now),
                            us.done.payload)
          /\ (GsInsert(t) /\ gs'[t].outcome = "ok" /\ gs[t].since) =>
                SettingsAre(gs[t].parsed, us.done.payload)]_vars

(***************************************************************************)
(* Ratings aggregation: claims.                                            *)
(***************************************************************************)
\* C13: an aggregated value that aggregate_ratings returns lies in [0, 100]
\* (0 to 1000 tenths).
C13_AggregatedInRange ==
    (call.fn = "aggregate_ratings" /\ call.ret.aggregated # PyNone) =>
        (0 <= call.ret.aggregated[2] /\ call.ret.aggregated[2] <= 1000)

Abs(x) == IF x < 0 THEN 0 - x ELSE x

\* the normalized values of the three arguments of the call
Normalized ==
    <<normalize_tmdb(call.args[1]), normalize_imdb(call.args[2]), normalize_rt(call.args[3])>>

\* the weights 0.2, 0.5, 0.3 of the primary, secondary and tertiary source
ClaimedWeights == <<2, 5, 3>>

PresentSources == {i \in 1..3 : Normalized[i] # PyNone}

PresentWeight(i) == IF i \in PresentSources THEN ClaimedWeights[i] ELSE 0
PresentTerm(i) == IF i \in PresentSources THEN ClaimedWeights[i] * Normalized[i][2] ELSE 0

AbsentOrMalformed ==
    <<{PyNone, PyStr("N/A")},
      {PyNone, PyStr(""), PyStr("/10"), PyStr("N/A"), PyStr("90%")},
      {PyNone, PyStr(""), PyStr("%"), PyStr("N/A"), PyStr("7.0/10")}>>

IsPresent(pair) == pair[2] # PyNone

\* C15: the breakdown holds exactly the sources whose input normalized, each
\* with its normalized value, and the aggregated value is absent exactly
\* when the breakdown is empty, which is when all three inputs are absent or
\* malformed.
C15_Breakdown ==
    call.fn = "aggregate_ratings" =>
        /\ call.ret.breakdown =
              PyDict(SelectSeq(<< <<"tmdb", Normalized[1]>>, <<"imdb", Normalized[2]>>,
                                  <<"rt", Normalized[3]>> >>, IsPresent))
        /\ \A i \in 1..3 : (call.args[i] \in AbsentOrMalformed[i]) <=> (i \notin PresentSources)
        /\ (call.ret.aggregated = PyNone) <=> (call.ret.breakdown = PyDict(<<>>))
        /\ (call.ret.breakdown = PyDict(<<>>)) <=>
              (\A i \in 1..3 : call.args[i] \in AbsentOrMalformed[i])

\* one input absent, one malformed, one present with the value 0
C15_Witness ==
    /\ call.fn = "aggregate_ratings"
    /\ call.args = <<PyNone, PyStr("N/A"), PyStr("0%")>>
    /\ call.ret.breakdown = PyDict(<< <<"rt", PyFloat(0)>> >>)
    /\ call.ret.aggregated = PyFloat(0)

\* what the claim says of each input: the number on the 0-100 scale, in tenths
ExpectedTmdb(value) ==
    CASE value = PyFloat(0) -> PyFloat(0)
      [] value = PyFloat(73) -> PyFloat(730)
      [] value = PyFloat(80) -> PyFloat(800)
      [] value = PyInt(7) -> PyFloat(700)
      [] OTHER -> PyNone

ExpectedImdb(value) ==
    CASE value = PyStr("7.0/10") -> PyFloat(700)
      [] value = PyStr("8.5/10") -> PyFloat(850)
      [] value = PyStr("10/10") -> PyFloat(1000)
      [] value = PyStr("12.0/10") -> PyFloat(1200)
      [] value = PyStr("7.0") -> PyFloat(700)
      [] OTHER -> PyNone

ExpectedRt(value) ==
    CASE value = PyStr("90%") -> PyFloat(900)
      [] value = PyStr(" 85% ") -> PyFloat(850)
      [] value = PyStr("100%") -> PyFloat(1000)
      [] value = PyStr("0%") -> PyFloat(0)
      [] value = PyStr("150%") -> PyFloat(1500)
      [] OTHER -> PyNone

\* C16: each normalizer returns None for an absent input and for an input
\* that is not a number, and otherwise the number on the 0-100 scale: ten
\* times the 0-10 score, ten times the part before "/", the number before
\* "%".
C16_Normalizers ==
    /\ call.fn = "normalize_tmdb" => call.ret = ExpectedTmdb(call.args[1])
    /\ call.fn = "normalize_imdb" => call.ret = ExpectedImdb(call.args[2])
    /\ call.fn = "normalize_rt" => call.ret = ExpectedRt(call.args[3])

C16_Witness ==
    /\ call.fn = "normalize_imdb"
    /\ call.args[2] = PyStr("8.5/10")
    /\ call.ret = PyFloat(850)

(***************************************************************************)
(* The order of the results: claims.                                       *)
(***************************************************************************)
\* the aggregated rating of a record, an absent one counted as 0
RatingOrZero(r) ==
    IF DictGet(r, "aggregated_rating", PyNone) = PyNone THEN 0
    ELSE DictGet(r, "aggregated_rating", PyNone)[2]

PositionIn(seq, r) == CHOOSE i \in 1..Len(seq) : seq[i] = r

ScannedNames == call.args.flatrate \o call.args.rent \o call.args.buy \o call.args.ads

\* the first place of a name in that order
FirstSeen(name) ==
    CHOOSE k \in 1..Len(ScannedNames) :
        /\ PyStr(ScannedNames[k]) = name
        /\ \A h \in 1..(k - 1) : PyStr(ScannedNames[h]) # name

\* C18: the platform list holds every provider name of the body once, in
\* the order in which the names are first seen when the categories are
\* scanned in the order flatrate, rent, buy, ads.
C18_ProvidersDeduplicated ==
    call.fn = "get_tmdb_providers" =>
        LET platforms == DictGet(call.ret, "providers", PyNone)[2]
        IN  /\ \A i, j \in 1..Len(platforms) : platforms[i] = platforms[j] => i = j
            /\ {platforms[i] : i \in 1..Len(platforms)} =
                  {PyStr(ScannedNames[k]) : k \in {h \in 1..Len(ScannedNames) : ScannedNames[h] # ""}}
            /\ \A i, j \in 1..Len(platforms) :
                  i < j => FirstSeen(platforms[i]) < FirstSeen(platforms[j])

\* a name in the streaming, the rental and the ad-supported category
C18_Witness ==
    /\ call.fn = "get_tmdb_providers"
    /\ call.args.flatrate = <<"Netflix">> /\ call.args.rent = <<"Hulu", "Netflix">>
    /\ call.args.buy = <<>> /\ call.args.ads = <<"Netflix", "Netflix">>
    /\ DictGet(call.ret, "providers", PyNone) = PyList(<<PyStr("Netflix"), PyStr("Hulu")>>)

=============================================================================
